---- MODULE Spec2Model ----
(***************************************************************************)
(* weather-report: a generator of a random CSV weather dataset.            *)
(* main prints a header, draws a record count N and prints N records, each *)
(* built by generate_weather_record from six draws of the randomness       *)
(* source.  The model follows src/weather-report/src/main.rs statement by  *)
(* statement; text is a sequence of one-character strings, an f32 is the   *)
(* exact binary fraction it holds.                                         *)
(***************************************************************************)
EXTENDS Integers, Sequences, FiniteSets, TLC

VARIABLES
    pc,           \* position of the run in main / generate_weather_record / generate_random_date
    rng,          \* the randomness source (its kind and its internal state)
    out,          \* standard output: the lines printed so far
    n,            \* main: number of records drawn at line 99
    i,            \* main: number of loop iterations started (for _ in 0..n)
    idx,          \* generate_weather_record: index drawn at line 73
    station,      \* generate_weather_record: stations[idx]
    temperature,  \* generate_weather_record: f32
    pressure,     \* generate_weather_record: f32
    year,         \* generate_random_date
    month,        \* generate_random_date
    max_day,      \* generate_random_date
    day,          \* generate_random_date
    rec,          \* main: the WeatherRecord returned by generate_weather_record
    draws,        \* log of the draws made: <<[site, lo, hi, value], ...>>
    prev          \* output of the run whose draws are being replayed (replay only)

vars == <<pc, rng, out, n, i, idx, station, temperature, pressure,
          year, month, max_day, day, rec, draws, prev>>

locals == <<idx, station, temperature, pressure, year, month, max_day, day, rec>>

\* ---------------------------------------------------------------- bounds

\* number of seeds of the seeded pseudo-random source tried
MaxSeed == 6

\* ------------------------------------------------------- program constants

NMin == 10
NMax == 20
TempMin == -100
TempMax == 400
\* mutant: a digit too many, the range 98000..=10500 is empty
PresMin_typo == 10 * 9800
PresMin == 9800
PresMax == 10500
YearMin == 2020
YearMax == 2025
MonthMin == 1
MonthMax == 12

\* what a variable holds while it has no value (not yet assigned, or dropped
\* at the end of its scope), for each type: no draw returns -1, no f32 has a
\* negative scale here, no station or date is named so
None ==
    [int     |-> -1,
     station |-> "none",
     f32     |-> [neg |-> FALSE, man |-> 0, scale |-> -1],
     rec     |-> [date |-> <<>>, station |-> "none",
                  temperature |-> [neg |-> FALSE, man |-> 0, scale |-> -1],
                  pressure |-> [neg |-> FALSE, man |-> 0, scale |-> -1]]]

\* ------------------------------------------------------------------ text

DigitChar == <<"0", "1", "2", "3", "4", "5", "6", "7", "8", "9">>

Digit(d) == DigitChar[d + 1]

RECURSIVE Digits(_)
\* Display of a non-negative integer: its decimal digits, no padding
Digits(k) == IF k < 10 THEN <<Digit(k)>> ELSE Digits(k \div 10) \o <<Digit(k % 10)>>

RECURSIVE Zeros(_)
Zeros(k) == IF k <= 0 THEN <<>> ELSE <<"0">> \o Zeros(k - 1)

\* {:0w}: sign first, then zeros up to the width, then the digits
ZeroPad(k, w) ==
    LET sign == IF k < 0 THEN <<"-">> ELSE <<>>
        ds   == Digits(IF k < 0 THEN -k ELSE k)
    IN  sign \o Zeros(w - Len(sign) - Len(ds)) \o ds

\* ------------------------------------------------------------------- f32

RECURSIVE Pow2(_)
Pow2(k) == IF k = 0 THEN 1 ELSE 2 * Pow2(k - 1)

\* num / den rounded to the nearest integer, ties to even
RoundHalfEven(num, den) ==
    LET q == num \div den
        r == num % den
    IN  IF 2 * r < den THEN q
        ELSE IF 2 * r > den THEN q + 1
        ELSE IF q % 2 = 0 THEN q ELSE q + 1

\* An f32 value is (-1)^neg * man / 2^scale with man < 2^24 (24-bit significand).
\* i32 as f32: exact for |x| <= 2^24, which covers every integer drawn here.
as_f32(x) == [neg |-> x < 0, man |-> IF x < 0 THEN -x ELSE x, scale |-> 0]

RECURSIVE F32Scale(_, _, _)
\* least k >= scale with num * 2^(k - scale) >= den * 2^23: the exponent that
\* makes the quotient's significand fill 24 bits
F32Scale(num, den, k) ==
    IF num >= den * Pow2(23) THEN k ELSE F32Scale(2 * num, den, k + 1)

\* a / d for an f32 a and a small positive integer d that f32 holds exactly
\* (10.0): the IEEE-754 quotient, the f32 nearest to the exact quotient
f32_div(a, d) ==
    IF a.man = 0 THEN [neg |-> a.neg, man |-> 0, scale |-> 0]
    ELSE LET k == F32Scale(a.man, d, a.scale)
             m == RoundHalfEven(a.man * Pow2(k - a.scale), d)
         IN  IF m = Pow2(24) THEN [neg |-> a.neg, man |-> Pow2(23), scale |-> k - 1]
             ELSE [neg |-> a.neg, man |-> m, scale |-> k]

\* mutant: "{}", the shortest decimal that reads back as the same f32: no
\* fraction is printed for a whole number
fmt_f32_display(v) ==
    LET tenths == RoundHalfEven(v.man * 10, Pow2(v.scale))
    IN  (IF v.neg THEN <<"-">> ELSE <<>>)
        \o Digits(tenths \div 10)
        \o (IF tenths % 10 = 0 THEN <<>> ELSE <<".">> \o <<Digit(tenths % 10)>>)

\* {:.1}: the exact value of the f32 rounded to one decimal digit, fixed point
fmt_f32_1(v) ==
    LET tenths == RoundHalfEven(v.man * 10, Pow2(v.scale))
    IN  (IF v.neg THEN <<"-">> ELSE <<>>)
        \o Digits(tenths \div 10) \o <<".">> \o <<Digit(tenths % 10)>>

\* ------------------------------------------------------------- StationType

StationType == {"StationA", "StationB", "StationC", "StationD", "StationE"}

\* StationType::to_string
to_string(s) ==
    CASE s = "StationA" -> <<"S", "t", "a", "t", "i", "o", "n", "A">>
      [] s = "StationB" -> <<"S", "t", "a", "t", "i", "o", "n", "B">>
      [] s = "StationC" -> <<"S", "t", "a", "t", "i", "o", "n", "C">>
      [] s = "StationD" -> <<"S", "t", "a", "t", "i", "o", "n", "D">>
      [] s = "StationE" -> <<"S", "t", "a", "t", "i", "o", "n", "E">>

\* StationType::all
StationType_all == <<"StationA", "StationB", "StationC", "StationD", "StationE">>

\* ----------------------------------------------------------- WeatherRecord

\* WeatherRecord::to_csv_line: "{},{},{:.1},{:.1}"
to_csv_line(r) ==
    r.date \o <<",">> \o to_string(r.station) \o <<",">>
           \o fmt_f32_1(r.temperature) \o <<",">> \o fmt_f32_1(r.pressure)

\* mutant: February given its leap-year length
MaxDayOf_leap(m) ==
    CASE m \in {1, 3, 5, 7, 8, 10, 12} -> 31
      [] m \in {4, 6, 9, 11} -> 30
      [] m = 2 -> 29
      [] OTHER -> 30

\* generate_random_date: the match on month
MaxDayOf(m) ==
    CASE m \in {1, 3, 5, 7, 8, 10, 12} -> 31
      [] m \in {4, 6, 9, 11} -> 30
      [] m = 2 -> 28
      [] OTHER -> 30

\* mutant: "{year}-{month}-{day}", the widths forgotten
format_date_unpadded(y, m, d) ==
    Digits(y) \o <<"-">> \o Digits(m) \o <<"-">> \o Digits(d)

\* generate_random_date: "{year:04}-{month:02}-{day:02}"
format_date(y, m, d) ==
    ZeroPad(y, 4) \o <<"-">> \o ZeroPad(m, 2) \o <<"-">> \o ZeroPad(d, 2)

\* mutant: the header in the language of the source's comments
Header_fr ==
    <<"D", "a", "t", "e", ",", "S", "t", "a", "t", "i", "o", "n",
      ",", "T", "e", "m", "p", "e", "r", "a", "t", "u", "r", "e",
      ",", "P", "r", "e", "s", "s", "i", "o", "n">>

\* main: the header literal
Header ==
    <<"D", "a", "t", "e", ",", "S", "t", "a", "t", "i", "o", "n", ",",
      "T", "e", "m", "p", "e", "r", "a", "t", "u", "r", "e", ",",
      "P", "r", "e", "s", "s", "u", "r", "e">>

\* ------------------------------------------------------ randomness source

\* mutant: the date drawn first, in the order of the record's fields
RecordSites_date_first == <<"year", "month", "day", "idx", "temperature", "pressure">>

\* generate_weather_record: its draws in statement order; the three lets come
\* before the struct literal whose date field calls generate_random_date
RecordSites == <<"idx", "temperature", "pressure", "year", "month", "day">>

\* the statement that follows the draw at `site`; after the last one the
\* record is returned
StepAfter(site) ==
    LET k == CHOOSE j \in 1..Len(RecordSites) : RecordSites[j] = site
    IN  IF k < Len(RecordSites) THEN RecordSites[k + 1] ELSE "return"

\* mutant: 0..=stations.len(), one past the last index
IdxHi_inclusive == Len(StationType_all)

\* mutant: 0..stations.len() - 1, the last station never drawn
IdxHi_short == Len(StationType_all) - 2

\* line 73: 0..stations.len() is half-open, its largest value is len - 1
IdxHi == Len(StationType_all) - 1

Source(kind, base, state, on, tape) ==
    [kind |-> kind, base |-> base, state |-> state, on |-> on, tape |-> tape]

\* always the minimum / the maximum of the requested range
MinSource == Source("min", "min", 0, {}, <<>>)
MaxSource == Source("max", "max", 0, {}, <<>>)

\* a seeded pseudo-random generator (Lehmer, multiplier 75 modulo 65537)
SeededSource(k) == Source("seeded", "min", (k * 7919) % 65537, {}, <<>>)

\* any value of the range at the sites in `on`, the base value elsewhere
FreeSource(on, base) == Source("free", base, 0, on, <<>>)

\* a fixed sequence of draw results
TapeSource(tape) == Source("tape", "min", 0, {}, tape)

BaseValue(base, lo, hi) == IF base = "min" THEN lo ELSE hi

\* Uniform::from(lo..=hi).sample(rng), lo <= hi: the possible results, each
\* with the state the source is left in
Sample(r, site, lo, hi) ==
    CASE r.kind = "min" -> {[value |-> lo, rng |-> r]}
      [] r.kind = "max" -> {[value |-> hi, rng |-> r]}
      [] r.kind = "seeded" ->
            {[value |-> lo + (r.state % (hi - lo + 1)),
              rng |-> [r EXCEPT !.state = (r.state * 75) % 65537]]}
      [] r.kind = "free" ->
            {[value |-> v, rng |-> r] :
                v \in IF site \in r.on THEN lo..hi ELSE {BaseValue(r.base, lo, hi)}}
      [] r.kind = "tape" ->
            IF r.tape = <<>> THEN {}
            ELSE {[value |-> Head(r.tape), rng |-> [r EXCEPT !.tape = Tail(r.tape)]]}

\* Uniform::from(lo..=hi) panics when the range is empty
Panic ==
    /\ pc' = "panic"
    /\ UNCHANGED <<rng, out, n, i, locals, draws, prev>>

\* .sample(rng) returned o: the source moves on and the draw is logged
Drawn(site, lo, hi, o) ==
    /\ rng' = o.rng
    /\ draws' = Append(draws, [site |-> site, lo |-> lo, hi |-> hi,
                               value |-> o.value])

\* ------------------------------------------------------------------- main

\* line 96: println!("Date,Station,Temperature,Pressure")
main_header ==
    /\ pc = "header"
    /\ out' = Append(out, Header)
    /\ pc' = "draw_n"
    /\ UNCHANGED <<rng, n, i, locals, draws, prev>>

\* mutant: n drawn from a generator of its own (rand::thread_rng() called
\* again), not from the source main was given
main_draw_n_own_rng ==
    /\ pc = "draw_n"
    /\ n' \in NMin..NMax
    /\ i' = 0
    /\ pc' = "loop"
    /\ UNCHANGED <<rng, out, locals, draws, prev>>

\* line 99: let n = Uniform::from(10..=20).sample(&mut rng)
main_draw_n ==
    /\ pc = "draw_n"
    /\ IF NMin > NMax
       THEN Panic
       ELSE \E o \in Sample(rng, "n", NMin, NMax) :
               /\ Drawn("n", NMin, NMax, o)
               /\ n' = o.value
               /\ i' = 0
               /\ pc' = "loop"
               /\ UNCHANGED <<out, locals, prev>>

\* mutant: for _ in 0..=n
main_loop_inclusive ==
    /\ pc = "loop"
    /\ IF i <= n
       THEN i' = i + 1 /\ pc' = RecordSites[1]
       ELSE i' = i /\ pc' = "done"
    /\ UNCHANGED <<rng, out, n, locals, draws, prev>>

\* line 100: for _ in 0..n
main_loop ==
    /\ pc = "loop"
    /\ IF i < n
       THEN i' = i + 1 /\ pc' = RecordSites[1]
       ELSE i' = i /\ pc' = "done"
    /\ UNCHANGED <<rng, out, n, locals, draws, prev>>

\* lines 72-74: idx drawn from the half-open 0..stations.len(); stations[idx]
\* is bounds-checked
rec_idx ==
    /\ pc = "idx"
    /\ IF 0 > IdxHi
       THEN Panic
       ELSE \E o \in Sample(rng, "idx", 0, IdxHi) :
               /\ Drawn("idx", 0, IdxHi, o)
               /\ idx' = o.value
               /\ IF o.value + 1 \in DOMAIN StationType_all
                  THEN station' = StationType_all[o.value + 1] /\ pc' = StepAfter("idx")
                  ELSE station' = station /\ pc' = "panic"
               /\ UNCHANGED <<out, n, i, temperature, pressure, year, month,
                              max_day, day, rec, prev>>

\* lines 76-78: Uniform::from(-100..=400).sample(rng) as f32 / 10.0
rec_temperature ==
    /\ pc = "temperature"
    /\ IF TempMin > TempMax
       THEN Panic
       ELSE \E o \in Sample(rng, "temperature", TempMin, TempMax) :
               /\ Drawn("temperature", TempMin, TempMax, o)
               /\ temperature' = f32_div(as_f32(o.value), 10)
               /\ pc' = StepAfter("temperature")
               /\ UNCHANGED <<out, n, i, idx, station, pressure, year, month,
                              max_day, day, rec, prev>>

\* lines 80-82: Uniform::from(9800..=10500).sample(rng) as f32 / 10.0
rec_pressure ==
    /\ pc = "pressure"
    /\ IF PresMin > PresMax
       THEN Panic
       ELSE \E o \in Sample(rng, "pressure", PresMin, PresMax) :
               /\ Drawn("pressure", PresMin, PresMax, o)
               /\ pressure' = f32_div(as_f32(o.value), 10)
               /\ pc' = StepAfter("pressure")
               /\ UNCHANGED <<out, n, i, idx, station, temperature, year, month,
                              max_day, day, rec, prev>>

\* line 58: let year = Uniform::from(2020..=2025).sample(rng)
date_year ==
    /\ pc = "year"
    /\ IF YearMin > YearMax
       THEN Panic
       ELSE \E o \in Sample(rng, "year", YearMin, YearMax) :
               /\ Drawn("year", YearMin, YearMax, o)
               /\ year' = o.value
               /\ pc' = StepAfter("year")
               /\ UNCHANGED <<out, n, i, idx, station, temperature, pressure,
                              month, max_day, day, rec, prev>>

\* lines 59-65: month drawn, max_day matched on it
date_month ==
    /\ pc = "month"
    /\ IF MonthMin > MonthMax
       THEN Panic
       ELSE \E o \in Sample(rng, "month", MonthMin, MonthMax) :
               /\ Drawn("month", MonthMin, MonthMax, o)
               /\ month' = o.value
               /\ max_day' = MaxDayOf(o.value)
               /\ pc' = StepAfter("month")
               /\ UNCHANGED <<out, n, i, idx, station, temperature, pressure,
                              year, day, rec, prev>>

\* line 66: let day = Uniform::from(1..=max_day).sample(rng)
date_day ==
    /\ pc = "day"
    /\ IF 1 > max_day
       THEN Panic
       ELSE \E o \in Sample(rng, "day", 1, max_day) :
               /\ Drawn("day", 1, max_day, o)
               /\ day' = o.value
               /\ pc' = StepAfter("day")
               /\ UNCHANGED <<out, n, i, idx, station, temperature, pressure,
                              year, month, max_day, rec, prev>>

\* lines 67, 84-89: the date is formatted and the WeatherRecord returned to
\* main; the callee's locals end with the call
rec_return ==
    /\ pc = "return"
    /\ rec' = [date |-> format_date(year, month, day), station |-> station,
               temperature |-> temperature, pressure |-> pressure]
    /\ idx' = None.int /\ station' = None.station
    /\ temperature' = None.f32 /\ pressure' = None.f32
    /\ year' = None.int /\ month' = None.int /\ max_day' = None.int /\ day' = None.int
    /\ pc' = "print"
    /\ UNCHANGED <<rng, out, n, i, draws, prev>>

\* line 102: println!("{}", rec.to_csv_line()); rec is dropped
main_print ==
    /\ pc = "print"
    /\ out' = Append(out, to_csv_line(rec))
    /\ rec' = None.rec
    /\ pc' = "loop"
    /\ UNCHANGED <<rng, n, i, idx, station, temperature, pressure, year, month,
                   max_day, day, draws, prev>>

\* ---------------------------------------------------------- specifications

NoLocals ==
    /\ idx = None.int /\ station = None.station
    /\ temperature = None.f32 /\ pressure = None.f32
    /\ year = None.int /\ month = None.int /\ max_day = None.int /\ day = None.int
    /\ rec = None.rec

\* the sources a whole run is checked with
RunSources ==
    {MinSource, MaxSource}
        \cup {SeededSource(k) : k \in 1..MaxSeed}
        \cup {FreeSource({"n"}, b) : b \in {"min", "max"}}

\* the start of main, line 93
Init ==
    /\ pc = "header"
    /\ rng \in RunSources
    /\ out = <<>>
    /\ n = None.int /\ i = None.int
    /\ NoLocals
    /\ draws = <<>>
    /\ prev = <<>>

Next ==
    \/ main_header
    \/ main_draw_n
    \/ main_loop
    \/ rec_idx
    \/ rec_temperature
    \/ rec_pressure
    \/ date_year
    \/ date_month
    \/ date_day
    \/ rec_return
    \/ main_print

Spec == Init /\ [][Next]_vars

\* a run executes to its end: main is one thread and nothing suspends it
LiveSpec == Spec /\ WF_vars(Next)

\* the sources the first record of a run is checked with: one field of the
\* record (the index, the temperature, the pressure, or the whole date) takes
\* every value of its range
FirstSources ==
    {FreeSource(on, b) :
        on \in {{"idx"}, {"temperature"}, {"pressure"}, {"year", "month", "day"}},
        b \in {"min", "max"}}

InitFirst ==
    /\ pc = "header"
    /\ rng \in FirstSources
    /\ out = <<>>
    /\ n = None.int /\ i = None.int
    /\ NoLocals
    /\ draws = <<>>
    /\ prev = <<>>

\* main up to the end of the first iteration of its loop
NextFirst ==
    \/ main_header
    \/ main_draw_n
    \/ main_loop /\ i = 0
    \/ rec_idx
    \/ rec_temperature
    \/ rec_pressure
    \/ date_year
    \/ date_month
    \/ date_day
    \/ rec_return
    \/ main_print

SpecFirst == InitFirst /\ [][NextFirst]_vars

\* main run again with the source replaced by the fixed sequence of the
\* results the finished run drew
replay ==
    /\ pc = "done"
    /\ rng.kind # "tape"
    /\ prev' = out
    /\ rng' = TapeSource([k \in 1..Len(draws) |-> draws[k].value])
    /\ out' = <<>>
    /\ draws' = <<>>
    /\ n' = None.int /\ i' = None.int
    /\ pc' = "header"
    /\ UNCHANGED locals

NextReplay ==
    \/ main_header
    \/ main_draw_n
    \/ main_loop
    \/ rec_idx
    \/ rec_temperature
    \/ rec_pressure
    \/ date_year
    \/ date_month
    \/ date_day
    \/ rec_return
    \/ main_print
    \/ replay

SpecReplay == Init /\ [][NextReplay]_vars

\* ------------------------------------------------------------------ claims

\* the data lines printed so far: the lines after the header
DataLines == IF out = <<>> THEN 0 ELSE Len(out) - 1

IsDigit(c) == c \in {"0", "1", "2", "3", "4", "5", "6", "7", "8", "9"}

AllDigits(f) == \A k \in 1..Len(f) : IsDigit(f[k])

DigitValue(c) == CHOOSE d \in 0..9 : Digit(d) = c

RECURSIVE ParseNat(_)
\* the number a non-empty sequence of digits denotes
ParseNat(f) ==
    IF Len(f) = 1 THEN DigitValue(f[1])
    ELSE 10 * ParseNat(SubSeq(f, 1, Len(f) - 1)) + DigitValue(f[Len(f)])

\* C1: the number of data lines printed after the header never exceeds 20,
\* and when the run has finished it equals the one value N drawn from [10,20]
\* by the first draw of the run, so it lies in [10,20].
CountInvariant ==
    /\ DataLines <= 20
    /\ pc = "done" =>
          /\ DataLines = n
          /\ n \in 10..20
          /\ draws[1].site = "n" /\ draws[1].value = n
          /\ Cardinality({k \in 1..Len(draws) : draws[k].site = "n"}) = 1

CountWitness == pc = "done" /\ DataLines = 20 /\ rng.kind = "free"

\* the month table of the specification
TableMaxDay(m) ==
    IF m \in {1, 3, 5, 7, 8, 10, 12} THEN 31
    ELSE IF m \in {4, 6, 9, 11} THEN 30 ELSE 28

ValidDate(y, m, d) ==
    /\ y \in 2020..2025
    /\ m \in 1..12
    /\ d \in 1..TableMaxDay(m)
    /\ ~(m = 2 /\ d > 28)

\* C2: every date generate_random_date produces has year in [2020,2025],
\* month in [1,12] and day in [1, max_day(month)] with max_day 31/30/28; no
\* date has month 2 and day > 28; the match on month never takes its
\* fallback arm (the month matched is always in 1..12).  Stated of the three
\* values drawn and of the date text returned.
DateRanges ==
    /\ pc = "day" => month \in 1..12 /\ max_day = TableMaxDay(month)
    /\ pc = "return" => ValidDate(year, month, day)
    /\ pc = "print" =>
          /\ Len(rec.date) = 10
          /\ AllDigits(SubSeq(rec.date, 1, 4))
          /\ AllDigits(SubSeq(rec.date, 6, 7))
          /\ AllDigits(SubSeq(rec.date, 9, 10))
          /\ ValidDate(ParseNat(SubSeq(rec.date, 1, 4)),
                       ParseNat(SubSeq(rec.date, 6, 7)),
                       ParseNat(SubSeq(rec.date, 9, 10)))

DateWitness ==
    /\ pc = "print"
    /\ rec.date = <<"2", "0", "2", "4", "-", "0", "2", "-", "2", "8">>

Abs(x) == IF x < 0 THEN -x ELSE x

\* v is the f32 that the decimal t/10 denotes: the 24-bit binary fraction
\* nearest to t/10 (within half a unit of its last place, 10 * man within 5
\* of |t| * 2^scale), which to one decimal digit reads t/10
IsF32OfTenths(v, t) ==
    /\ v.neg = (t < 0)
    /\ v.man < Pow2(24)
    /\ RoundHalfEven(v.man * 10, Pow2(v.scale)) = Abs(t)
    /\ Abs(10 * v.man - Abs(t) * Pow2(v.scale)) <= 5

\* the record being printed was built from the last six draws
LastDraw(k) == draws[Len(draws) - 6 + k].value

\* C3: every record generate_weather_record produces has a station among
\* StationA..StationE, the index drawn being a valid index 0..4 of the
\* five-element table (no bounds panic); its temperature is the f32 value of
\* t/10 for the integer t drawn, t in [-100,400], and its pressure the f32
\* value of p/10 for the integer p drawn, p in [9800,10500]: each reads as a
\* whole number of tenths to one decimal digit.
RecordRanges ==
    /\ pc # "panic"
    /\ pc \in {"temperature", "pressure", "year", "month", "day", "return"} =>
          /\ idx \in 0..4
          /\ station = <<"StationA", "StationB", "StationC", "StationD", "StationE">>[idx + 1]
    /\ pc = "print" =>
          /\ rec.station \in {"StationA", "StationB", "StationC", "StationD", "StationE"}
          /\ LastDraw(2) \in -100..400
          /\ IsF32OfTenths(rec.temperature, LastDraw(2))
          /\ LastDraw(3) \in 9800..10500
          /\ IsF32OfTenths(rec.pressure, LastDraw(3))

RecordWitness ==
    /\ pc = "print"
    /\ rec.station = "StationE"
    /\ LastDraw(2) = -1
    /\ rec.temperature = [neg |-> TRUE, man |-> 13421773, scale |-> 27]
    /\ LastDraw(3) = 10500

Commas(l) == {k \in 1..Len(l) : l[k] = ","}

\* \d{4}-\d{2}-\d{2}
IsDateText(f) ==
    /\ Len(f) = 10
    /\ f[5] = "-" /\ f[8] = "-"
    /\ \A k \in {1, 2, 3, 4, 6, 7, 9, 10} : IsDigit(f[k])

\* Station[A-E]
IsStationName(f) ==
    /\ Len(f) = 8
    /\ SubSeq(f, 1, 7) = <<"S", "t", "a", "t", "i", "o", "n">>
    /\ f[8] \in {"A", "B", "C", "D", "E"}

\* \d+\.\d
IsDecimal1(f) ==
    /\ Len(f) >= 3
    /\ AllDigits(SubSeq(f, 1, Len(f) - 2))
    /\ f[Len(f) - 1] = "."
    /\ IsDigit(f[Len(f)])

\* -?\d+\.\d
IsSignedDecimal1(f) ==
    IF f # <<>> /\ f[1] = "-" THEN IsDecimal1(Tail(f)) ELSE IsDecimal1(f)

\* \d{4}-\d{2}-\d{2},Station[A-E],-?\d+\.\d,\d+\.\d
IsDataLine(l) ==
    /\ Cardinality(Commas(l)) = 3
    /\ LET c1 == CHOOSE k \in Commas(l) : \A j \in Commas(l) : k <= j
           c3 == CHOOSE k \in Commas(l) : \A j \in Commas(l) : k >= j
           c2 == CHOOSE k \in Commas(l) : k # c1 /\ k # c3
       IN  /\ IsDateText(SubSeq(l, 1, c1 - 1))
           /\ IsStationName(SubSeq(l, c1 + 1, c2 - 1))
           /\ IsSignedDecimal1(SubSeq(l, c2 + 1, c3 - 1))
           /\ IsDecimal1(SubSeq(l, c3 + 1, Len(l)))

\* C4: every data line printed has the shape YYYY-MM-DD,StationX,T.T,P.P:
\* four digits, '-', two digits, '-', two digits; one of the five station
\* names; the temperature with an optional '-', at least one integer digit
\* and exactly one decimal digit; the pressure likewise without a sign; four
\* fields separated by exactly three commas.
FormatInvariant == \A k \in 2..Len(out) : IsDataLine(out[k])

FormatWitness ==
    /\ Len(out) = 2
    /\ out[2] =
          <<"2", "0", "2", "0", "-", "0", "1", "-", "0", "1", ",", "S",
            "t", "a", "t", "i", "o", "n", "A", ",", "-", "0", ".", "5",
            ",", "9", "8", "0", ".", "0">>

MinLine ==
    <<"2", "0", "2", "0", "-", "0", "1", "-", "0", "1", ",", "S",
      "t", "a", "t", "i", "o", "n", "A", ",", "-", "1", "0", ".",
      "0", ",", "9", "8", "0", ".", "0">>

MaxLine ==
    <<"2", "0", "2", "5", "-", "1", "2", "-", "3", "1", ",", "S",
      "t", "a", "t", "i", "o", "n", "E", ",", "4", "0", ".", "0",
      ",", "1", "0", "5", "0", ".", "0">>

\* C5: with the source that always returns the minimum of the requested
\* range the run does not fail, and once finished has printed exactly 10 data
\* lines, each 2020-01-01,StationA,-10.0,980.0.
MinScenario ==
    rng.kind = "min" =>
        /\ pc # "panic"
        /\ \A k \in 2..Len(out) : out[k] = MinLine
        /\ pc = "done" => DataLines = 10

MinWitness == rng.kind = "min" /\ pc = "done" /\ DataLines = 10 /\ out[11] = MinLine

\* C6: with the source that always returns the maximum of the requested
\* range the run does not fail, and once finished has printed exactly 20 data
\* lines, each 2025-12-31,StationE,40.0,1050.0.
MaxScenario ==
    rng.kind = "max" =>
        /\ pc # "panic"
        /\ \A k \in 2..Len(out) : out[k] = MaxLine
        /\ pc = "done" => DataLines = 20

MaxWitness == rng.kind = "max" /\ pc = "done" /\ DataLines = 20 /\ out[21] = MaxLine

\* C7: a run fed, as a fixed sequence, the draw results of an earlier run
\* prints what that run printed, line for line: while it runs its output is a
\* prefix of the earlier output, and when it has finished the two outputs are
\* equal (same N, same data lines in the same order) and the sequence is
\* used up.
Determinism ==
    rng.kind = "tape" =>
        /\ pc # "panic"
        /\ Len(out) <= Len(prev)
        /\ out = SubSeq(prev, 1, Len(out))
        /\ pc = "done" => out = prev /\ rng.tape = <<>>

DeterminismWitness ==
    /\ rng.kind = "tape"
    /\ pc = "done"
    /\ out = prev
    /\ DataLines = 16

\* the header line of the specification
ExpectedHeader ==
    <<"D", "a", "t", "e", ",", "S", "t", "a", "t", "i", "o", "n",
      ",", "T", "e", "m", "p", "e", "r", "a", "t", "u", "r", "e",
      ",", "P", "r", "e", "s", "s", "u", "r", "e">>

\* the output starts with the header, printed before anything is drawn, and
\* holds nothing else but data lines
HeaderShape ==
    /\ (out = <<>>) <=> (pc = "header")
    /\ out # <<>> => out[1] = ExpectedHeader
    /\ draws # <<>> => out # <<>>
    /\ \A k \in 2..Len(out) : out[k] # ExpectedHeader /\ IsDataLine(out[k])
    /\ pc = "done" => Len(out) = n + 1

\* C8: every run terminates; its output is the header
\* Date,Station,Temperature,Pressure exactly once, as line 1, printed before
\* N is drawn and before any data line, followed only by data lines; nothing
\* is printed once the run has finished, and the final output has N+1 lines.
RunOutput ==
    /\ []HeaderShape
    /\ [][pc = "done" => out' = out]_vars
    /\ <>(pc = "done")

RunOutputWitness ==
    /\ pc = "done"
    /\ rng.kind = "seeded"
    /\ out[1] = ExpectedHeader
    /\ Len(out) = n + 1

\* the range each call site asks for
ExpectedRange(d) ==
    CASE d.site = "n" -> d.lo = 10 /\ d.hi = 20
      [] d.site = "idx" -> d.lo = 0 /\ d.hi = 4
      [] d.site = "temperature" -> d.lo = -100 /\ d.hi = 400
      [] d.site = "pressure" -> d.lo = 9800 /\ d.hi = 10500
      [] d.site = "year" -> d.lo = 2020 /\ d.hi = 2025
      [] d.site = "month" -> d.lo = 1 /\ d.hi = 12
      [] d.site = "day" -> d.lo = 1 /\ d.hi \in {28, 30, 31}

\* C9: every draw made requests a non-empty range, lo <= hi: [10,20], the
\* station index 0..4, [-100,400], [9800,10500], [2020,2025], [1,12], and the
\* day range [1,max_day] whose upper bound, computed from the month drawn
\* just before, is one of 28, 30, 31; no draw fails (the run never panics).
DrawRanges ==
    /\ pc # "panic"
    /\ \A k \in 1..Len(draws) :
          /\ draws[k].lo <= draws[k].hi
          /\ draws[k].value \in draws[k].lo..draws[k].hi
          /\ ExpectedRange(draws[k])
          /\ draws[k].site = "day" =>
                /\ draws[k - 1].site = "month"
                /\ draws[k].hi = TableMaxDay(draws[k - 1].value)

DrawRangesWitness ==
    /\ pc = "loop"
    /\ Len(draws) = 7
    /\ draws[6].value = 2
    /\ draws[7].site = "day" /\ draws[7].hi = 28 /\ draws[7].value = 28

\* the order of the six draws of a record
ExpectedOrder == <<"idx", "temperature", "pressure", "year", "month", "day">>

\* the line of the record built from draws 6(k-1)+2 .. 6(k-1)+7
LineOfDraws(k) ==
    LET v(j) == draws[6 * (k - 1) + 1 + j].value
    IN  to_csv_line([date |-> format_date(v(4), v(5), v(6)),
                     station |-> StationType_all[v(1) + 1],
                     temperature |-> f32_div(as_f32(v(2)), 10),
                     pressure |-> f32_div(as_f32(v(3)), 10)])

\* C10: the first draw is the one for N; then each record makes six draws in
\* the order station index, temperature, pressure, year, month, day; the
\* k-th data line is built from draws 6(k-1)+2 .. 6(k-1)+7 and is printed
\* before any draw for record k+1 is made; a finished run has made 1+6N draws.
DrawOrder ==
    /\ \A k \in 1..Len(draws) :
          draws[k].site = IF k = 1 THEN "n" ELSE ExpectedOrder[((k - 2) % 6) + 1]
    /\ \A k \in 1..DataLines :
          /\ Len(draws) >= 6 * k + 1
          /\ out[k + 1] = LineOfDraws(k)
    /\ Len(draws) <= 1 + 6 * (DataLines + 1)
    /\ pc = "done" => Len(draws) = 1 + 6 * n

DrawOrderWitness ==
    /\ pc = "done"
    /\ rng.kind = "seeded"
    /\ DataLines = 16
    /\ Len(draws) = 97
    /\ out[17] = LineOfDraws(16)

====
